---- MODULE Spec2Model ----
(***************************************************************************)
(* Model of validate_mdc.py: the .mdc document validator                   *)
(* (validate_mdc_file) and the repository scan around it                   *)
(* (validate_all_mdc_files, main).                                         *)
(*                                                                         *)
(* A text is a sequence of symbols.  A symbol is one character ("-", " ",  *)
(* "#", the line feed "\n", the letter "T") or an atom: a fixed run of     *)
(* characters that holds no dash, no line feed and no blank at either end  *)
(* and is written as the run itself ("description: x").  Atoms occur only  *)
(* in header lines.  Every string operation of the code (startswith,       *)
(* split, splitlines, strip, slicing) is computed on these sequences.      *)
(***************************************************************************)
EXTENDS Integers, Sequences, FiniteSets, TLC

\* ------------------------------------------------------------------ bounds

\* Most body lines a document has after its closing delimiter line.
MaxBody == 3
\* Most files the scan specification discovers.
MaxFiles == 2
\* Length of the long body line (one more than the excerpt a defect carries).
LongLen == 51

\* first_content_line[:50]
ExcerptLen == 50

\* ------------------------------------------------------------- text helpers

NL == "\n"
Delim == <<"-", "-", "-">>
Whitespace == {" ", NL}

Min(a, b) == IF a <= b THEN a ELSE b

RECURSIVE Flatten(_)
Flatten(ss) == IF ss = <<>> THEN <<>> ELSE Head(ss) \o Flatten(Tail(ss))

\* str.startswith
StartsWith(s, p) == Len(s) >= Len(p) /\ SubSeq(s, 1, Len(p)) = p

\* str.find from position `from` (1-based); 0 when absent
Find(s, p, from) ==
    LET hits == {i \in from..(Len(s) - Len(p) + 1) : SubSeq(s, i, i + Len(p) - 1) = p}
    IN  IF hits = {} THEN 0 ELSE CHOOSE i \in hits : \A j \in hits : i <= j

\* str.split(sep, maxsplit)
RECURSIVE Split(_, _, _)
Split(s, sep, maxsplit) ==
    LET at == Find(s, sep, 1)
    IN  IF maxsplit = 0 \/ at = 0
        THEN <<s>>
        ELSE <<SubSeq(s, 1, at - 1)>>
             \o Split(SubSeq(s, at + Len(sep), Len(s)), sep, maxsplit - 1)

\* str.splitlines(keepends=True)
Splitlines(s) ==
    LET ends   == {i \in 1..Len(s) : s[i] = NL} \cup (IF s = <<>> THEN {} ELSE {Len(s)})
        End(k) == CHOOSE e \in ends : Cardinality({f \in ends : f <= e}) = k
        Start(k) == IF k = 1 THEN 1 ELSE End(k - 1) + 1
    IN  [k \in 1..Cardinality(ends) |-> SubSeq(s, Start(k), End(k))]

\* str.strip
Strip(s) ==
    LET keep == {i \in 1..Len(s) : s[i] \notin Whitespace}
    IN  IF keep = {} THEN <<>>
        ELSE SubSeq(s, CHOOSE i \in keep : \A j \in keep : i <= j,
                       CHOOSE i \in keep : \A j \in keep : i >= j)

\* s[:n]
Take(s, n) == SubSeq(s, 1, Min(n, Len(s)))

\* ------------------------------------------------- the metadata decoder

(***************************************************************************)
(* yaml.safe_load on the texts the model builds.  A metadata line is       *)
(* blank, a comment, a "key: value" atom, a block-sequence item or plain   *)
(* text.  The decoded value is a mapping (kind "dict"), any other value    *)
(* (None, a string, a list: kind "other") or a syntax error.  A YAML value *)
(* is [type, val]; val is the text of a string and <<>> otherwise.  Later  *)
(* duplicate keys replace earlier ones, as PyYAML's constructor does.  A   *)
(* deeper-indented plain line continuing the value above it is outside the *)
(* modelled subset (read as an error); no document of the model has one.   *)
(***************************************************************************)
Atoms == {"description: x", "description: ''", "description: 5",
          "globs: [a]", "globs: a",
          "alwaysApply: true", "alwaysApply: 'true'"}

AtomKey(a) ==
    CASE a \in {"description: x", "description: ''", "description: 5"} -> "description"
      [] a \in {"globs: [a]", "globs: a"} -> "globs"
      [] OTHER -> "alwaysApply"

AtomValue(a) ==
    CASE a = "description: x"      -> [type |-> "str",  val |-> <<"x">>]
      [] a = "description: ''"     -> [type |-> "str",  val |-> <<>>]
      [] a = "description: 5"      -> [type |-> "int",  val |-> <<>>]
      [] a = "globs: [a]"          -> [type |-> "list", val |-> <<>>]
      [] a = "globs: a"            -> [type |-> "str",  val |-> <<"a">>]
      [] a = "alwaysApply: true"   -> [type |-> "bool", val |-> <<>>]
      [] a = "alwaysApply: 'true'" -> [type |-> "str",  val |-> <<"t", "r", "u", "e">>]

\* The value is a plain (unquoted, non-flow) scalar: text after it extends it.
AtomPlain(a) == a \in {"description: x", "description: 5", "globs: a", "alwaysApply: true"}

Indent(l) ==
    LET keep == {i \in 1..Len(l) : l[i] \notin Whitespace}
    IN  IF keep = {} THEN 0 ELSE (CHOOSE i \in keep : \A j \in keep : i <= j) - 1

\* A comment starts the tail of an entry: blanks, then "#".
CommentTail(t) == t = <<>> \/ (t[1] = " " /\ (Strip(t) = <<>> \/ Strip(t)[1] = "#"))

YamlLineClass(l) ==
    LET b == Strip(l)
    IN  CASE b = <<>>      -> "blank"
          [] b # <<>> /\ b[1] = "#" -> "comment"
          [] b # <<>> /\ b[1] \in Atoms ->
                IF CommentTail(Tail(b)) \/ AtomPlain(b[1]) THEN "entry" ELSE "bad"
          [] b # <<>> /\ b[1] = "-" /\ (Len(b) = 1 \/ b[2] = " ") -> "seq"
          [] OTHER -> "scalar"

YamlEntryValue(l) ==
    LET b == Strip(l)
    IN  IF CommentTail(Tail(b)) THEN AtomValue(b[1])
        ELSE [type |-> "str", val |-> AtomValue(b[1]).val \o Tail(b)]

SafeLoad(text) ==
    LET ls      == Splitlines(text)
        cls     == [k \in 1..Len(ls) |-> YamlLineClass(ls[k])]
        content == {k \in 1..Len(ls) : cls[k] \notin {"blank", "comment"}}
        kinds   == {cls[k] : k \in content}
        indents == {Indent(ls[k]) : k \in content}
        broken  == \E i, j \in content : \E c \in 1..Len(ls) :
                       i < c /\ c < j /\ cls[c] = "comment"
        keys    == {AtomKey(Strip(ls[k])[1]) : k \in content}
        Last(key) == CHOOSE k \in content :
                        /\ AtomKey(Strip(ls[k])[1]) = key
                        /\ \A j \in content : AtomKey(Strip(ls[j])[1]) = key => j <= k
    IN  CASE content = {} -> [kind |-> "other", data |-> <<>>]
          [] content # {} /\ kinds = {"entry"} /\ Cardinality(indents) = 1 ->
                [kind |-> "dict", data |-> [key \in keys |-> YamlEntryValue(ls[Last(key)])]]
          [] content # {} /\ kinds = {"seq"} /\ Cardinality(indents) = 1 ->
                [kind |-> "other", data |-> <<>>]
          [] content # {} /\ kinds = {"scalar"} /\ ~broken ->
                [kind |-> "other", data |-> <<>>]
          [] OTHER -> [kind |-> "error", data |-> <<>>]

\* ------------------------------------------------------------ the documents

Line(syms) == syms \o <<NL>>

LongLine == [k \in 1..LongLen |-> "T"]

\* First lines: the delimiter, a line that does not start with it, and a line
\* that starts with it and goes on.
OpenLines == {Delim, <<"T">>, Delim \o <<"description: x">>}

\* Zero or one line per metadata field; a description whose value holds the
\* delimiter token; a line of plain text in place of the description.
DescOpts == {<<>>, <<<<"description: x">>>>, <<<<"description: ''">>>>,
             <<<<"description: 5">>>>, <<<<"description: x", "-", "-", "-", "T">>>>,
             <<<<"T">>>>}
GlobsOpts == {<<>>, <<<<"globs: [a]">>>>, <<<<"globs: a">>>>}
ApplyOpts == {<<>>, <<<<"alwaysApply: true">>>>, <<<<"alwaysApply: 'true'">>>>}
CloseOpts == {<<>>, <<Delim>>, <<<<" ">> \o Delim>>}

\* Body lines: blank, a heading, a long line of text.
BodyLines == {<<>>, <<"#", "T">>, LongLine}
Bodies == UNION {[1..n -> BodyLines] : n \in 0..MaxBody}

Text(ls) == Flatten([k \in 1..Len(ls) |-> Line(ls[k])])

Documents ==
    {Text(<<o>> \o d \o g \o a \o c \o b) :
        o \in OpenLines, d \in DescOpts, g \in GlobsOpts, a \in ApplyOpts,
        c \in CloseOpts, b \in Bodies}

Unreadable == [readable |-> FALSE, text |-> <<>>]
Readable(t) == [readable |-> TRUE, text |-> t]

Files == {Unreadable} \cup {Readable(t) : t \in Documents}

\* ------------------------------------------------------------ the defects

Defect(m) == [msg |-> m, line |-> 0, text |-> <<>>]
DefectAt(m, n) == [msg |-> m, line |-> n, text |-> <<>>]
DefectWith(m, n, t) == [msg |-> m, line |-> n, text |-> t]

ErrRead         == Defect("Error reading file")
ErrNoStart      == Defect("File does not start with '---'")
ErrNoClose      == Defect("Missing closing '---' delimiter")
ErrNotDict      == Defect("Frontmatter is not a dictionary")
ErrYaml         == Defect("YAML syntax error in frontmatter")
ErrDescMissing  == Defect("Missing required field: 'description'")
ErrDescType     == Defect("Field 'description' must be a string")
ErrDescEmpty    == Defect("Field 'description' cannot be empty")
ErrGlobsMissing == Defect("Missing required field: 'globs'")
ErrGlobsType    == Defect("Field 'globs' must be a list/array")
ErrApplyMissing == Defect("Missing required field: 'alwaysApply'")
ErrApplyType    == Defect("Field 'alwaysApply' must be a boolean")
ErrNoClosingLine == Defect("Could not find closing '---' in file")
ErrNoContent    == Defect("No content after frontmatter")
ErrNoBody       == Defect("No content after blank line")
ErrNotBlank(n)  == DefectAt("Missing blank line after frontmatter", n)
ErrNoHeading(n, t) == DefectWith("Content does not start with heading '#'", n, t)

\* ------------------------------------------------- validate_mdc_file, by phase

\* A slip: `'---' in content` in place of content.startswith('---').
ContainsDelimiter(c) == Find(c, Delim, 1) # 0

StartsWithDelimiter(c) == StartsWith(c, Delim)

SplitFrontmatter(c) == Split(c, Delim, 2)

DescriptionErrors(d) ==
    IF "description" \notin DOMAIN d THEN <<ErrDescMissing>>
    ELSE IF d["description"].type # "str" THEN <<ErrDescType>>
    ELSE IF Strip(d["description"].val) = <<>> THEN <<ErrDescEmpty>>
    ELSE <<>>

GlobsErrors(d) ==
    IF "globs" \notin DOMAIN d THEN <<ErrGlobsMissing>>
    ELSE IF d["globs"].type # "list" THEN <<ErrGlobsType>>
    ELSE <<>>

AlwaysApplyErrors(d) ==
    IF "alwaysApply" \notin DOMAIN d THEN <<ErrApplyMissing>>
    ELSE IF d["alwaysApply"].type # "bool" THEN <<ErrApplyType>>
    ELSE <<>>

\* A slip: the first failing field ends the schema checks.
SchemaErrorsShortCircuit(d) ==
    IF DescriptionErrors(d) # <<>> THEN DescriptionErrors(d)
    ELSE IF GlobsErrors(d) # <<>> THEN GlobsErrors(d)
    ELSE AlwaysApplyErrors(d)

SchemaErrors(d) == DescriptionErrors(d) \o GlobsErrors(d) \o AlwaysApplyErrors(d)

\* The index (0-based, as enumerate gives it) of the first line after the first
\* whose stripped text is the delimiter; -1 stands for None.
ClosingDashIdx(ls) ==
    LET hits == {i \in 1..(Len(ls) - 1) : Strip(ls[i + 1]) = Delim}
    IN  IF hits = {} THEN -1 ELSE CHOOSE i \in hits : \A j \in hits : i <= j

\* lines[k] with k 0-based
At(ls, k) == ls[k + 1]

BlankLineErrors(ls, idx) ==
    IF Strip(At(ls, idx + 1)) # <<>> THEN <<ErrNotBlank(idx + 2)>> ELSE <<>>

\* A slip: the 0-based index plus two as the line number.
HeadingErrorsOffByOne(ls, idx) ==
    IF idx + 2 >= Len(ls) THEN <<ErrNoBody>>
    ELSE IF ~StartsWith(Strip(At(ls, idx + 2)), <<"#">>)
         THEN <<ErrNoHeading(idx + 2, Take(At(ls, idx + 2), ExcerptLen))>>
         ELSE <<>>

\* A variant: the heading is looked for on the first non-blank line after the
\* separator.
HeadingErrorsFirstNonBlank(ls, idx) ==
    LET body == {k \in (idx + 2)..(Len(ls) - 1) : Strip(At(ls, k)) # <<>>}
        first == CHOOSE k \in body : \A j \in body : k <= j
    IN  IF idx + 2 >= Len(ls) THEN <<ErrNoBody>>
        ELSE IF body # {} /\ ~StartsWith(Strip(At(ls, first)), <<"#">>)
             THEN <<ErrNoHeading(first + 1, Take(At(ls, first), ExcerptLen))>>
             ELSE <<>>

HeadingErrors(ls, idx) ==
    IF idx + 2 >= Len(ls) THEN <<ErrNoBody>>
    ELSE IF ~StartsWith(Strip(At(ls, idx + 2)), <<"#">>)
         THEN <<ErrNoHeading(idx + 3, Take(At(ls, idx + 2), ExcerptLen))>>
         ELSE <<>>

\* A slip: the positional checks are not skipped when no closing line is found.
FormattingErrorsFallThrough(ls, idx) ==
    IF idx = -1 THEN <<ErrNoClosingLine, ErrNoContent>>
    ELSE IF idx + 1 >= Len(ls) THEN <<ErrNoContent>>
    ELSE BlankLineErrors(ls, idx) \o HeadingErrors(ls, idx)

FormattingErrors(ls, idx) ==
    IF idx = -1 THEN <<ErrNoClosingLine>>
    ELSE IF idx + 1 >= Len(ls) THEN <<ErrNoContent>>
    ELSE BlankLineErrors(ls, idx) \o HeadingErrors(ls, idx)

\* A slip: <= 1 in place of == 0.
IsValidOffByOne(errs) == Len(errs) <= 1

IsValid(errs) == Len(errs) = 0

\* ------------------------------------------------------------------- state

VARIABLES
    fs,                \* the .mdc files under the root: path -> file
    mdc_files,         \* validate_all_mdc_files: the sorted paths
    i,                 \* position of the scan loop in mdc_files (1-based)
    results,           \* validate_all_mdc_files: (path, is_valid, errors)
    summary,           \* the dictionary validate_all_mdc_files returns
    exit_status,       \* what main returns; -1 before it has
    pc,                \* where the program is
    content,           \* validate_mdc_file: the text read
    lines,             \* validate_mdc_file: content.splitlines(keepends=True)
    errors,            \* validate_mdc_file: the defects so far
    parts,             \* validate_mdc_file: content.split('---', 2)
    frontmatter_data,  \* validate_mdc_file: the decoded metadata
    closing_dash_idx,  \* validate_mdc_file: -1 for None
    ret                \* validate_mdc_file: the value returned

scan_vars == <<fs, mdc_files, i, results, summary, exit_status>>
local_vars == <<content, lines, errors, parts, frontmatter_data, closing_dash_idx>>
vars == <<fs, mdc_files, i, results, summary, exit_status, pc,
          content, lines, errors, parts, frontmatter_data, closing_dash_idx, ret>>

NoData == [kind |-> "unset", data |-> <<>>]
NoReturn == [is_valid |-> FALSE, errors |-> <<>>]
NoSummary == [total_files |-> 0, valid_files |-> 0, invalid_files |-> 0]

FreshLocals ==
    /\ content = <<>>
    /\ lines = <<>>
    /\ errors = <<>>
    /\ parts = <<>>
    /\ frontmatter_data = NoData
    /\ closing_dash_idx = -1
    /\ ret = NoReturn

InitWith(files) ==
    /\ fs = files
    /\ mdc_files = <<>>
    /\ i = 1
    /\ results = <<>>
    /\ summary = NoSummary
    /\ exit_status = -1
    /\ pc = "scan"
    /\ FreshLocals

\* One file, any document.
Init == \E f \in Files : InitWith([p \in {1} |-> f])

\* ------------------------------------------------------------ the scan

Orders(S) == {o \in [1..Cardinality(S) -> S] : \A a \in S : \E k \in DOMAIN o : o[k] = a}

\* A slip: the paths in the order rglob yields them.
Unsorted(o) == o

\* sorted(...)
Sorted(o) == SortSeq(o, LAMBDA a, b : a < b)

\* mdc_files = sorted(root_dir.rglob('*.mdc')); rglob yields in any order
Discover ==
    /\ pc = "scan"
    /\ \E o \in Orders(DOMAIN fs) : mdc_files' = Sorted(o)
    /\ pc' = "loop"
    /\ UNCHANGED <<fs, i, results, summary, exit_status, local_vars, ret>>

\* for mdc_file in mdc_files: validate_mdc_file(mdc_file)
Call ==
    /\ pc = "loop"
    /\ i <= Len(mdc_files)
    /\ pc' = "read"
    /\ UNCHANGED <<scan_vars, local_vars, ret>>

Returning(valid, errs) ==
    /\ ret' = [is_valid |-> valid, errors |-> errs]
    /\ pc' = "ret"

\* except Exception: return False, [f"Error reading file: {e}"]
ReadFail ==
    /\ pc = "read"
    /\ ~fs[mdc_files[i]].readable
    /\ Returning(FALSE, <<ErrRead>>)
    /\ UNCHANGED <<scan_vars, local_vars>>

ReadOk ==
    /\ pc = "read"
    /\ fs[mdc_files[i]].readable
    /\ content' = fs[mdc_files[i]].text
    /\ lines' = Splitlines(fs[mdc_files[i]].text)
    /\ pc' = "start"
    /\ UNCHANGED <<scan_vars, errors, parts, frontmatter_data, closing_dash_idx, ret>>

NoStart ==
    /\ pc = "start"
    /\ ~StartsWithDelimiter(content)
    /\ errors' = Append(errors, ErrNoStart)
    /\ Returning(FALSE, errors')
    /\ UNCHANGED <<scan_vars, content, lines, parts, frontmatter_data, closing_dash_idx>>

StartOk ==
    /\ pc = "start"
    /\ StartsWithDelimiter(content)
    /\ pc' = "split"
    /\ UNCHANGED <<scan_vars, local_vars, ret>>

NoClose ==
    /\ pc = "split"
    /\ parts' = SplitFrontmatter(content)
    /\ Len(parts') < 3
    /\ errors' = Append(errors, ErrNoClose)
    /\ Returning(FALSE, errors')
    /\ UNCHANGED <<scan_vars, content, lines, frontmatter_data, closing_dash_idx>>

SplitOk ==
    /\ pc = "split"
    /\ parts' = SplitFrontmatter(content)
    /\ Len(parts') >= 3
    /\ pc' = "decode"
    /\ UNCHANGED <<scan_vars, content, lines, errors, frontmatter_data, closing_dash_idx, ret>>

\* frontmatter_text = parts[1]
FrontmatterText == parts[2]

YamlError ==
    /\ pc = "decode"
    /\ SafeLoad(FrontmatterText).kind = "error"
    /\ errors' = Append(errors, ErrYaml)
    /\ Returning(FALSE, errors')
    /\ UNCHANGED <<scan_vars, content, lines, parts, frontmatter_data, closing_dash_idx>>

NotDict ==
    /\ pc = "decode"
    /\ SafeLoad(FrontmatterText).kind = "other"
    /\ frontmatter_data' = SafeLoad(FrontmatterText)
    /\ errors' = Append(errors, ErrNotDict)
    /\ Returning(FALSE, errors')
    /\ UNCHANGED <<scan_vars, content, lines, parts, closing_dash_idx>>

DecodeOk ==
    /\ pc = "decode"
    /\ SafeLoad(FrontmatterText).kind = "dict"
    /\ frontmatter_data' = SafeLoad(FrontmatterText)
    /\ pc' = "schema"
    /\ UNCHANGED <<scan_vars, content, lines, errors, parts, closing_dash_idx, ret>>

CheckSchema ==
    /\ pc = "schema"
    /\ errors' = errors \o SchemaErrors(frontmatter_data.data)
    /\ pc' = "findclose"
    /\ UNCHANGED <<scan_vars, content, lines, parts, frontmatter_data, closing_dash_idx, ret>>

FindClosing ==
    /\ pc = "findclose"
    /\ closing_dash_idx' = ClosingDashIdx(lines)
    /\ pc' = "format"
    /\ UNCHANGED <<scan_vars, content, lines, errors, parts, frontmatter_data, ret>>

\* the formatting checks and `return len(errors) == 0, errors`
CheckFormatting ==
    /\ pc = "format"
    /\ errors' = errors \o FormattingErrors(lines, closing_dash_idx)
    /\ Returning(IsValid(errors'), errors')
    /\ UNCHANGED <<scan_vars, content, lines, parts, frontmatter_data, closing_dash_idx>>

\* results.append((mdc_file, is_valid, errors))
Collect ==
    /\ pc = "ret"
    /\ results' = Append(results,
                         [path |-> mdc_files[i], is_valid |-> ret.is_valid,
                          errors |-> ret.errors])
    /\ i' = i + 1
    /\ content' = <<>>
    /\ lines' = <<>>
    /\ errors' = <<>>
    /\ parts' = <<>>
    /\ frontmatter_data' = NoData
    /\ closing_dash_idx' = -1
    /\ ret' = NoReturn
    /\ pc' = "loop"
    /\ UNCHANGED <<fs, mdc_files, summary, exit_status>>

ValidCount(rs) == Cardinality({k \in 1..Len(rs) : rs[k].is_valid})

Summarise ==
    /\ pc = "loop"
    /\ i > Len(mdc_files)
    /\ summary' = [total_files |-> Len(results),
                   valid_files |-> ValidCount(results),
                   invalid_files |-> Len(results) - ValidCount(results)]
    /\ pc' = "main"
    /\ UNCHANGED <<fs, mdc_files, i, results, exit_status, local_vars, ret>>

\* main: invalid_files = [... if not is_valid]; return 1 if invalid_files else 0
ExitStatus(rs) == IF \E k \in 1..Len(rs) : ~rs[k].is_valid THEN 1 ELSE 0

Exit ==
    /\ pc = "main"
    /\ exit_status' = ExitStatus(results)
    /\ pc' = "done"
    /\ UNCHANGED <<fs, mdc_files, i, results, summary, local_vars, ret>>

Next ==
    \/ Discover \/ Call \/ ReadFail \/ ReadOk \/ NoStart \/ StartOk
    \/ NoClose \/ SplitOk \/ YamlError \/ NotDict \/ DecodeOk
    \/ CheckSchema \/ FindClosing \/ CheckFormatting
    \/ Collect \/ Summarise \/ Exit

Spec == Init /\ [][Next]_vars

\* ------------------------------------------------- the scan of several files

GoodDoc ==
    Text(<<Delim, <<"description: x">>, <<"globs: [a]">>, <<"alwaysApply: true">>,
           Delim, <<>>, <<"#", "T">>>>)
ApplyStringDoc ==
    Text(<<Delim, <<"description: x">>, <<"globs: [a]">>, <<"alwaysApply: 'true'">>,
           Delim, <<>>, <<"#", "T">>>>)
NoStartDoc == Text(<<<<"T">>, Delim>>)
NoCloseDoc == Text(<<Delim, <<"description: x">>>>)
BadYamlDoc == Text(<<Delim, <<"T">>, <<"globs: [a]">>, Delim, <<>>, <<"#", "T">>>>)
NotDictDoc == Text(<<Delim, <<"T">>, Delim, <<>>, <<"#", "T">>>>)

ScanFiles ==
    {Unreadable} \cup
    {Readable(t) : t \in {GoodDoc, ApplyStringDoc, NoStartDoc, NoCloseDoc,
                          BadYamlDoc, NotDictDoc}}

\* Up to MaxFiles files, each unreadable or one of the sample documents.
ScanInit == \E S \in SUBSET (1..MaxFiles) : \E files \in [S -> ScanFiles] : InitWith(files)

ScanSpec == ScanInit /\ [][Next]_vars

\* ------------------------------------------------------------- properties

(***************************************************************************)
(* The document as its reader sees it: its lines, numbered from 1, each    *)
(* the text up to the next line feed, without the line feed.               *)
(***************************************************************************)
PhysLines(c) ==
    LET nls == {p \in 1..Len(c) : c[p] = NL}
        open == IF c # <<>> /\ c[Len(c)] # NL THEN 1 ELSE 0
        Nl(k) == IF k = 0 THEN 0
                 ELSE IF k > Cardinality(nls) THEN Len(c) + 1
                 ELSE CHOOSE q \in nls : Cardinality({r \in nls : r <= q}) = k
    IN  [k \in 1..(Cardinality(nls) + open) |-> SubSeq(c, Nl(k - 1) + 1, Nl(k) - 1)]
IsBlankLine(l) == \A k \in 1..Len(l) : l[k] \in Whitespace
IsDelimLine(l) ==
    \E a, b \in 0..Len(l) :
        /\ a + 3 + b = Len(l)
        /\ \A k \in 1..a : l[k] \in Whitespace
        /\ \A k \in (a + 4)..Len(l) : l[k] \in Whitespace
        /\ l[a + 1] = "-" /\ l[a + 2] = "-" /\ l[a + 3] = "-"
\* The number of the closing delimiter line: the first after line 1; 0 if none.
ClosingLineNo(ls) ==
    LET hits == {n \in 2..Len(ls) : IsDelimLine(ls[n])}
    IN  IF hits = {} THEN 0 ELSE CHOOSE n \in hits : \A m \in hits : n <= m
FirstNonBlank(l) ==
    LET keep == {k \in 1..Len(l) : l[k] \notin Whitespace}
    IN  IF keep = {} THEN "" ELSE l[CHOOSE k \in keep : \A j \in keep : k <= j]
\* Lines a+1 .. b-1 of the document, each with a line feed.
LinesBetween(ls, a, b) ==
    Flatten([k \in 1..(b - a - 1) |-> ls[a + k] \o <<NL>>])

Reading == pc \notin {"scan", "loop", "read", "main", "done"}
Returned == pc = "ret"
Document == fs[mdc_files[i]].text
WasRead == Returned /\ fs[mdc_files[i]].readable
MsgsOf(errs) == {errs[k].msg : k \in 1..Len(errs)}

SchemaMsgs == {ErrDescMissing.msg, ErrDescType.msg, ErrDescEmpty.msg,
               ErrGlobsMissing.msg, ErrGlobsType.msg,
               ErrApplyMissing.msg, ErrApplyType.msg}
FormatMsgs == {ErrNoClosingLine.msg, ErrNoContent.msg, ErrNoBody.msg,
               "Missing blank line after frontmatter",
               "Content does not start with heading '#'"}

\* The metadata of a well-formed document: a mapping with a non-empty string
\* description, a list globs and a boolean alwaysApply.
GoodMetadata(v) ==
    /\ v.kind = "dict"
    /\ {"description", "globs", "alwaysApply"} \subseteq DOMAIN v.data
    /\ v.data["description"].type = "str"
    /\ \E k \in 1..Len(v.data["description"].val) :
            v.data["description"].val[k] \notin Whitespace
    /\ v.data["globs"].type = "list"
    /\ v.data["alwaysApply"].type = "bool"

WellFormed(c) ==
    LET ls == PhysLines(c)
        n == ClosingLineNo(ls)
    IN  /\ Len(ls) >= 1
        /\ ls[1] = Delim
        /\ n # 0
        /\ GoodMetadata(SafeLoad(LinesBetween(ls, 1, n)))
        /\ Len(ls) >= n + 2
        /\ IsBlankLine(ls[n + 1])
        /\ StartsWith(ls[n + 2], <<"#">>)

\* C1: every well-formed document (delimiter lines, a metadata mapping with the
\* three fields correctly typed, a blank line, a heading) is returned valid with
\* no defect, also when a metadata value holds the token '---'.
C1_WellFormedIsValid ==
    (WasRead /\ WellFormed(Document)) =>
        (ret.is_valid /\ ret.errors = <<>>)

\* C2: every document that starts with '---' and has no later line whose
\* trimmed content is '---' is returned invalid with exactly the one defect
\* "Missing closing '---' delimiter", and no schema or formatting check runs.
C2_NoClosingLineOneDefect ==
    (WasRead /\ StartsWith(Document, Delim) /\ ClosingLineNo(PhysLines(Document)) = 0) =>
        /\ ~ret.is_valid
        /\ ret.errors = <<ErrNoClose>>
        /\ frontmatter_data.kind = "unset"

\* C3: every document that does not start with '---' is returned invalid with
\* exactly the one defect "File does not start with '---'", and nothing further
\* is attempted: no split, no decode, no line scan, no other defect.
C3_NoOpeningOneDefect ==
    /\ (WasRead /\ ~StartsWith(Document, Delim)) =>
            /\ ~ret.is_valid
            /\ ret.errors = <<ErrNoStart>>
            /\ parts = <<>>
            /\ frontmatter_data.kind = "unset"
            /\ closing_dash_idx = -1
    /\ pc \in {"split", "decode", "schema", "findclose", "format"} =>
            StartsWith(Document, Delim)

\* A document without the opening token that holds the token further down.
C3_Witness ==
    /\ WasRead
    /\ ~StartsWith(Document, Delim)
    /\ Find(Document, Delim, 1) # 0
    /\ ret.errors = <<ErrNoStart>>

\* A field of the decoded mapping that draws a schema defect.
FieldAbsent(d, key) == key \notin DOMAIN d
FieldMistyped(d, key, type) == key \in DOMAIN d /\ d[key].type # type
DescriptionBlank(d) ==
    /\ "description" \in DOMAIN d
    /\ d["description"].type = "str"
    /\ \A k \in 1..Len(d["description"].val) : d["description"].val[k] \in Whitespace
BadFields(d) ==
    {key \in {"globs", "alwaysApply"} :
        FieldAbsent(d, key)
        \/ FieldMistyped(d, key, IF key = "globs" THEN "list" ELSE "bool")}
    \cup (IF FieldAbsent(d, "description") \/ FieldMistyped(d, "description", "str")
             \/ DescriptionBlank(d)
          THEN {"description"} ELSE {})

\* C4: once the metadata is a mapping, each of the three fields is checked on
\* its own and the defects accumulate: each schema defect is reported exactly
\* when its field is absent, mistyped or empty, whatever the other two fields
\* are, at most one per field; a string alwaysApply in an otherwise well-formed
\* document gives exactly the one alwaysApply type defect.
C4_SchemaChecksAccumulate ==
    /\ pc = "findclose" =>
        LET d == frontmatter_data.data
            Has(e) == \E k \in 1..Len(errors) : errors[k] = e
        IN  /\ Has(ErrDescMissing) <=> FieldAbsent(d, "description")
            /\ Has(ErrDescType) <=> FieldMistyped(d, "description", "str")
            /\ Has(ErrDescEmpty) <=> DescriptionBlank(d)
            /\ Has(ErrGlobsMissing) <=> FieldAbsent(d, "globs")
            /\ Has(ErrGlobsType) <=> FieldMistyped(d, "globs", "list")
            /\ Has(ErrApplyMissing) <=> FieldAbsent(d, "alwaysApply")
            /\ Has(ErrApplyType) <=> FieldMistyped(d, "alwaysApply", "bool")
            /\ Len(errors) = Cardinality(BadFields(d))
    /\ (WasRead /\ Document = ApplyStringDoc) => ret.errors = <<ErrApplyType>>

\* A scalar globs reported together with a description and an alwaysApply defect.
C4_Witness ==
    /\ pc = "findclose"
    /\ FieldMistyped(frontmatter_data.data, "globs", "list")
    /\ errors = <<ErrDescEmpty, ErrGlobsType, ErrApplyType>>

\* Line n with its line feed, as the file holds it.
PhysLineEnd(c, ls, n) ==
    ls[n] \o (IF n < Len(ls) \/ c[Len(c)] = NL THEN <<NL>> ELSE <<>>)

BlankMsg == "Missing blank line after frontmatter"
HeadingMsg == "Content does not start with heading '#'"

HeadingReported == HeadingMsg \in MsgsOf(ret.errors)
\* The formatting checks ran and found the closing line and a line after it.
SeparatorChecked(ls, n) ==
    /\ WasRead
    /\ frontmatter_data.kind = "dict"
    /\ n # 0
    /\ Len(ls) >= n + 1

\* C6 as stated: the heading defect is reported exactly when the first
\* non-blank line after the blank separator does not start with '#'.
C6_HeadingIffFirstNonBlank ==
    (WasRead /\ frontmatter_data.kind = "dict") =>
        LET ls == PhysLines(Document)
            n == ClosingLineNo(ls)
            body == {m \in (n + 2)..Len(ls) : ~IsBlankLine(ls[m])}
            first == CHOOSE m \in body : \A j \in body : m <= j
        IN  SeparatorChecked(ls, n) =>
                (HeadingReported <=>
                    (body # {} /\ FirstNonBlank(ls[first]) # "#"))

\* C6, amended: the heading defect is reported exactly when the line two after
\* the closing delimiter line exists and its trimmed content does not start
\* with '#' (a blank line there is reported too); a document that fails a
\* structural check gets no heading defect.
C6_HeadingIffSecondLineAfterClose ==
    /\ (WasRead /\ frontmatter_data.kind = "dict") =>
        LET ls == PhysLines(Document)
            n == ClosingLineNo(ls)
        IN  SeparatorChecked(ls, n) =>
                (HeadingReported <=>
                    /\ Len(ls) >= n + 2
                    /\ FirstNonBlank(ls[n + 2]) # "#")
    /\ (WasRead /\ frontmatter_data.kind # "dict") => ~HeadingReported

\* Two blank lines and then a heading: the heading defect is reported.
C6_Witness ==
    /\ WasRead
    /\ LET ls == PhysLines(Document)
           n == ClosingLineNo(ls)
       IN  /\ SeparatorChecked(ls, n)
           /\ Len(ls) >= n + 3
           /\ IsBlankLine(ls[n + 1])
           /\ IsBlankLine(ls[n + 2])
           /\ StartsWith(ls[n + 3], <<"#">>)
    /\ HeadingReported

\* C7: on every return path of validate_mdc_file the flag returned is true
\* exactly when the defect list returned is empty.
C7_ValidIffNoDefects ==
    /\ Returned => (ret.is_valid <=> ret.errors = <<>>)
    /\ \A k \in 1..Len(results) : results[k].is_valid <=> results[k].errors = <<>>

\* The final return of a document with no defect.
C7_Witness ==
    /\ WasRead
    /\ frontmatter_data.kind = "dict"
    /\ ret.is_valid
    /\ ret.errors = <<>>

C9_NoClosingLineKeepsSchemaDefects ==
    /\ (WasRead /\ frontmatter_data.kind = "dict"
            /\ ClosingLineNo(PhysLines(Document)) = 0) =>
        LET es == ret.errors
        IN  /\ Len(es) = Cardinality(BadFields(frontmatter_data.data)) + 1
            /\ es[Len(es)] = ErrNoClosingLine
            /\ \A k \in 1..(Len(es) - 1) : es[k].msg \in SchemaMsgs
            /\ MsgsOf(es) \cap (FormatMsgs \ {ErrNoClosingLine.msg}) = {}
    /\ Returned =>
        \A j, k \in 1..Len(ret.errors) :
            (j < k /\ ret.errors[k].msg \in SchemaMsgs) => ret.errors[j].msg \in SchemaMsgs

\* Schema defects and the missing closing line in one result.
C9_Witness ==
    /\ WasRead
    /\ frontmatter_data.kind = "dict"
    /\ ClosingLineNo(PhysLines(Document)) = 0
    /\ Len(ret.errors) >= 3
    /\ ret.errors[Len(ret.errors)] = ErrNoClosingLine

\* C10: whenever a document is returned valid, the metadata text that was
\* decoded (between the first two occurrences of '---') is the text of the
\* lines between the opening delimiter line and the closing delimiter line
\* (surrounding blanks and line ends aside).
C10_DecodedTextIsTheHeaderLines ==
    (WasRead /\ ret.is_valid) =>
        LET ls == PhysLines(Document)
        IN  Strip(parts[2]) = Strip(LinesBetween(ls, 1, ClosingLineNo(ls)))

====
